---- MODULE Spec2Model ----
(***************************************************************************)
(* Model of the employee directory's storage layer: app/database.py        *)
(* (scoped transactions), app/models.py (Employee, chunked) and            *)
(* app/repository.py (EmployeeRepository), with the SQL statements given   *)
(* the meaning SQLite gives them.                                          *)
(*                                                                         *)
(* Text values (full_name, gender, the ISO birth_date) are sequences of    *)
(* character codes, so that prefix tests, case folding and the BINARY      *)
(* collation order are computed and not assumed.                           *)
(*                                                                         *)
(* Record constructors list their fields in the order in which the names   *)
(* first occur in this module, which is the order TLC keeps records in, so *)
(* that a record shared by two TLC workers is never reordered in place.    *)
(***************************************************************************)
EXTENDS Integers, Sequences, FiniteSets, TLC

(***************************************************************************)
(* Bounds of the model.                                                    *)
(***************************************************************************)
\* longest sequence handed to bulk_insert / replace_compressed_rows
MaxLen == 3
\* largest batch_size handed to bulk_insert
MaxBatch == 3
\* cap on the AUTOINCREMENT counter of the employees table
MaxSeq == 4
\* cap on the number of times the database file is opened
MaxOpens == 3

(***************************************************************************)
(* Text helpers.                                                           *)
(***************************************************************************)
Upper(c) == IF c \in 97..122 THEN c - 32 ELSE c

Lower(c) == IF c \in 65..90 THEN c + 32 ELSE c

IsSpace(c) == c \in {9, 10, 11, 12, 13, 32}

RECURSIVE LStrip(_)
LStrip(s) == IF s # <<>> /\ IsSpace(Head(s)) THEN LStrip(Tail(s)) ELSE s

RECURSIVE RStrip(_)
RStrip(s) ==
  IF s # <<>> /\ IsSpace(s[Len(s)]) THEN RStrip(SubSeq(s, 1, Len(s) - 1)) ELSE s

\* str.strip()
Strip(s) == RStrip(LStrip(s))

\* str.capitalize(): first character upper-cased, the rest lower-cased
Capitalize(s) ==
  [i \in 1..Len(s) |-> IF i = 1 THEN Upper(s[i]) ELSE Lower(s[i])]

\* memcmp order of the BINARY collation (ORDER BY full_name)
RECURSIVE TextLE(_, _)
TextLE(a, b) ==
  IF a = <<>> THEN TRUE
  ELSE IF b = <<>> THEN FALSE
  ELSE IF Head(a) # Head(b) THEN Head(a) < Head(b)
  ELSE TextLE(Tail(a), Tail(b))

Digit(n) == 48 + n

IsDigit(c) == c \in 48..57

\* date.isoformat(): YYYY-MM-DD, zero padded
isoformat(d) ==
  << Digit(d[1] \div 1000), Digit((d[1] \div 100) % 10),
     Digit((d[1] \div 10) % 10), Digit(d[1] % 10), 45,
     Digit(d[2] \div 10), Digit(d[2] % 10), 45,
     Digit(d[3] \div 10), Digit(d[3] % 10) >>

DaysInMonth(y, m) ==
  IF m \in {4, 6, 9, 11} THEN 30
  ELSE IF m # 2 THEN 31
  ELSE IF (y % 4 = 0 /\ y % 100 # 0) \/ y % 400 = 0 THEN 29 ELSE 28

\* datetime.strptime(s, "%Y-%m-%d").date() on a zero padded text;
\* error is "ValueError" when the text is not a date
strptime(s) ==
  IF /\ Len(s) = 10
     /\ s[5] = 45
     /\ s[8] = 45
     /\ \A i \in {1, 2, 3, 4, 6, 7, 9, 10} : IsDigit(s[i])
  THEN LET y == (s[1] - 48) * 1000 + (s[2] - 48) * 100 + (s[3] - 48) * 10 + (s[4] - 48)
           m == (s[6] - 48) * 10 + (s[7] - 48)
           d == (s[9] - 48) * 10 + (s[10] - 48)
       IN IF y >= 1 /\ m \in 1..12 /\ d >= 1 /\ d <= DaysInMonth(y, m)
          THEN [error |-> "none", date |-> <<y, m, d>>]
          ELSE [error |-> "ValueError", date |-> <<>>]
  ELSE [error |-> "ValueError", date |-> <<>>]

(***************************************************************************)
(* Values.                                                                 *)
(***************************************************************************)
Male == <<77, 97, 108, 101>>

Female == <<70, 101, 109, 97, 108, 101>>

\* stand-ins for full names: "Fa", "fa", "Ga"
NameFa == <<70, 97>>

Namefa == <<102, 97>>

NameGa == <<71, 97>>

\* full names with a character json escapes and one utf-8 writes as two
\* bytes: F" and F followed by e-acute
NameFq == <<70, 34>>

NameFe == <<70, 233>>

Date1 == <<1990, 5, 15>>

Date2 == <<1985, 2, 10>>

\* compressed payloads: opaque bytes
Payload1 == <<31, 139, 8>>

Payload2 == <<31, 139, 8, 0>>

NoError == "none"

NoEmployee == [full_name |-> <<>>, birth_date |-> <<>>, gender |-> <<>>]

(***************************************************************************)
(* app/models.py                                                           *)
(***************************************************************************)
\* Employee(full_name, birth_date, gender) with __post_init__
Employee(full_name, birth_date, gender) ==
  [full_name |-> Strip(full_name),
   birth_date |-> birth_date,
   gender |-> Capitalize(Strip(gender))]

\* Employee.from_strings: the record, or the ValueError it raises
from_strings(full_name, birth_date, gender) ==
  LET parsed == strptime(birth_date)
      gender_norm == Capitalize(Strip(gender))
  IN IF parsed.error # NoError
     THEN [error |-> parsed.error, employee |-> NoEmployee]
     ELSE IF gender_norm \notin {Male, Female}
     THEN [error |-> "ValueError", employee |-> NoEmployee]
     ELSE [error |-> NoError, employee |-> Employee(full_name, parsed.date, gender_norm)]

\* Employee.to_row
to_row(emp) == <<emp.full_name, isoformat(emp.birth_date), emp.gender>>

\* the order of Python tuples: the first position that differs decides
RECURSIVE TupleLT(_, _)
TupleLT(a, b) ==
  IF a = <<>> THEN b # <<>>
  ELSE IF b = <<>> THEN FALSE
  ELSE IF Head(a) = Head(b) THEN TupleLT(Tail(a), Tail(b))
  ELSE Head(a) < Head(b)

\* the mutant: the birthday of the reference year is not looked at
age_by_year(emp, today) == today[1] - emp.birth_date[1]

\* Employee.age(reference_date), today being reference_date or date.today()
age(emp, today) ==
  LET years == today[1] - emp.birth_date[1]
  IN IF TupleLT(<<today[2], today[3]>>, <<emp.birth_date[2], emp.birth_date[3]>>)
     THEN years - 1
     ELSE years

\* chunked(iterable, size).  The iterable is a finite sequence of items
\* followed either by exhaustion or, when failing, by an exception raised
\* from the iterator; the batches are those yielded before that point.
RECURSIVE chunkedLoop(_, _, _, _, _)
chunkedLoop(items, size, batch, yielded, failing) ==
  IF items = <<>>
  THEN IF failing THEN [error |-> "IteratorError", batches |-> yielded]
       ELSE IF batch # <<>> THEN [error |-> NoError, batches |-> Append(yielded, batch)]
       ELSE [error |-> NoError, batches |-> yielded]
  ELSE LET b == Append(batch, Head(items))
       IN IF Len(b) >= size
          THEN chunkedLoop(Tail(items), size, <<>>, Append(yielded, b), failing)
          ELSE chunkedLoop(Tail(items), size, b, yielded, failing)

\* the mutant: the batch left over when the iterable ends is not yielded
chunked_whole_only(iterable, size, failing) ==
  LET ch == chunkedLoop(iterable, size, <<>>, <<>>, failing)
  IN [ch EXCEPT !.batches = SelectSeq(@, LAMBDA b : Len(b) = size)]

chunked(iterable, size, failing) == chunkedLoop(iterable, size, <<>>, <<>>, failing)

\* the records the callers construct
Employees ==
  { Employee(NameFa, Date1, Male),
    Employee(NameFa, Date1, Female),
    Employee(NameFa, Date2, Male),
    Employee(Namefa, Date1, Male),
    Employee(NameGa, Date1, Male) }

(***************************************************************************)
(* State: the committed content of the database file and the last call.   *)
(***************************************************************************)
VARIABLES
  employees,   \* rows of table employees, in rowid order
  seq,         \* sqlite_sequence.seq of employees (AUTOINCREMENT), 0 if none
  schema,      \* names of the tables and indexes that exist
  compressed,  \* rows of table compressed_employees (keyed, WITHOUT ROWID)
  lastOp,      \* the last call: its name, arguments, return value, exception
  connection,  \* Database._connection: 0 for None, else the handle's identity
  opened,      \* the number of sqlite3.connect calls made so far
  pragmas,     \* per handle opened, the PRAGMA statements executed on it
  in_transaction  \* connection.in_transaction: a BEGIN is not yet ended

vars ==
  <<employees, seq, schema, compressed, lastOp, connection, opened, pragmas,
    in_transaction>>

TEmployees == "employees"

UxEmployees == "ux_employees_fullname_birth"

IxEmployees == "ix_employees_gender_fullname"

TCompressed == "compressed_employees"

IxCompressed == "ix_compressed_gender_fullname"

\* the database content as one value
DB ==
  [employees |-> employees, seq |-> seq, schema |-> schema, compressed |-> compressed,
   active |-> in_transaction]

NoArgs == [none |-> TRUE]

NoRet == [none |-> TRUE]

Range(s) == {s[i] : i \in 1..Len(s)}

(***************************************************************************)
(* app/database.py: Database.connect, _configure, close                    *)
(***************************************************************************)
\* the Database object's connection state as one value
Conn == [connection |-> connection, opened |-> opened, pragmas |-> pragmas]

\* the statements of _configure, in order
PragmaList ==
  << <<"foreign_keys", "ON">>,
     <<"journal_mode", "WAL">>,
     <<"synchronous", "NORMAL">>,
     <<"temp_store", "MEMORY">>,
     <<"cache_size", "-65536">> >>

\* Database._configure on the current handle
_configure(c) == [c EXCEPT !.pragmas[c.connection] = @ \o PragmaList]

\* the mutant: the handle is configured on every call
connect_configure_always(c) ==
  IF c.connection = 0
  THEN _configure([connection |-> c.opened + 1, opened |-> c.opened + 1,
                   pragmas |-> Append(c.pragmas, <<>>)])
  ELSE _configure(c)

\* Database.connect: the connection state after the call; the value
\* returned is its connection
connect(c) ==
  IF c.connection = 0
  THEN _configure([connection |-> c.opened + 1, opened |-> c.opened + 1,
                   pragmas |-> Append(c.pragmas, <<>>)])
  ELSE c

\* the mutant: the handle is closed and _connection keeps it
close_keep(c) == c

\* Database.close
close(c) == IF c.connection # 0 THEN [c EXCEPT !.connection = 0] ELSE c

(***************************************************************************)
(* app/database.py: Database.transaction                                   *)
(***************************************************************************)
\* connection.execute("BEGIN"): the statements of the body work on a copy
\* of the committed content; changes is sqlite3_changes(), error the
\* exception that left the body, active whether a transaction is open.
\* BEGIN inside an open transaction fails and leaves it open.
Begin(db) ==
  [error |-> IF db.active THEN "OperationalError" ELSE NoError,
   employees |-> db.employees, seq |-> db.seq, schema |-> db.schema,
   compressed |-> db.compressed, active |-> TRUE, changes |-> 0]

\* the mutant: the else branch does not call connection.commit()
ContentUncommitted(cx) ==
  [employees |-> cx.employees, seq |-> cx.seq, schema |-> cx.schema,
   compressed |-> cx.compressed, active |-> cx.active]

\* connection.commit(): the content of the body becomes the stored content
\* and the transaction ends
Content(cx) ==
  [employees |-> cx.employees, seq |-> cx.seq, schema |-> cx.schema,
   compressed |-> cx.compressed, active |-> FALSE]

\* the mutant: the except branch re-raises without connection.rollback(),
\* and the next commit makes the partial writes durable
TransactionNoRollback(db, cx, ret) ==
  IF cx.error # NoError
  THEN [db |-> [Content(cx) EXCEPT !.active = TRUE], ret |-> NoRet, raised |-> cx.error]
  ELSE [db |-> Content(cx), ret |-> ret, raised |-> NoError]

\* with self._db.transaction() as connection: <body>; return ret
\* cx is the connection state when the body was left
Transaction(db, cx, ret) ==
  IF cx.error # NoError
  THEN [db |-> [db EXCEPT !.active = FALSE], ret |-> NoRet, raised |-> cx.error]
  ELSE [db |-> Content(cx), ret |-> ret, raised |-> NoError]

\* every repository call starts with Database.connect(), directly or
\* through transaction()
Connected ==
  /\ connection = 0 => opened < MaxOpens
  /\ connection' = connect(Conn).connection
  /\ opened' = connect(Conn).opened
  /\ pragmas' = connect(Conn).pragmas

\* the call's outcome becomes the next state
Returns(op, args, out) ==
  /\ Connected
  /\ employees' = out.db.employees
  /\ seq' = out.db.seq
  /\ schema' = out.db.schema
  /\ compressed' = out.db.compressed
  /\ in_transaction' = out.db.active
  /\ lastOp' = [ret |-> out.ret, raised |-> out.raised, op |-> op, args |-> args]

(***************************************************************************)
(* SQL statements of app/repository.py                                     *)
(***************************************************************************)
Max(a, b) == IF a >= b THEN a ELSE b

RECURSIVE MaxRowid(_)
MaxRowid(rows) == IF rows = <<>> THEN 0 ELSE Max(Head(rows).id, MaxRowid(Tail(rows)))

Raise(cx, error) == [cx EXCEPT !.error = error]

HasKey(rows, full_name, birth_date) ==
  \E i \in 1..Len(rows) : rows[i].full_name = full_name /\ rows[i].birth_date = birth_date

\* the mutant: the table is dropped and created anew on every call
CreateTableEmployeesAnew(cx) ==
  IF cx.error # NoError THEN cx
  ELSE [cx EXCEPT !.schema = (@ \ {UxEmployees, IxEmployees}) \cup {TEmployees},
                  !.employees = <<>>, !.seq = 0]

\* CREATE TABLE IF NOT EXISTS employees (...)
CreateTableEmployees(cx) ==
  IF cx.error # NoError \/ TEmployees \in cx.schema THEN cx
  ELSE [cx EXCEPT !.schema = @ \cup {TEmployees}, !.employees = <<>>, !.seq = 0]

\* CREATE UNIQUE INDEX IF NOT EXISTS ux_employees_fullname_birth
CreateUniqueIndex(cx) ==
  IF cx.error # NoError \/ UxEmployees \in cx.schema THEN cx
  ELSE IF TEmployees \notin cx.schema THEN Raise(cx, "OperationalError")
  ELSE IF \E i, j \in 1..Len(cx.employees) :
            /\ i < j
            /\ cx.employees[i].full_name = cx.employees[j].full_name
            /\ cx.employees[i].birth_date = cx.employees[j].birth_date
       THEN Raise(cx, "IntegrityError")
  ELSE [cx EXCEPT !.schema = @ \cup {UxEmployees}]

\* the mutant: INSERT OR REPLACE, the later duplicate replaces the row
InsertOrReplace(cx, row) ==
  IF cx.error # NoError THEN cx
  ELSE IF TEmployees \notin cx.schema THEN Raise(cx, "OperationalError")
  ELSE LET rowid == Max(cx.seq, MaxRowid(cx.employees)) + 1
           kept == SelectSeq(cx.employees,
                     LAMBDA r : ~(r.full_name = row[1] /\ r.birth_date = row[2]))
       IN [cx EXCEPT !.employees = Append(kept,
                        [full_name |-> row[1], birth_date |-> row[2],
                         gender |-> row[3], id |-> rowid]),
                     !.seq = rowid, !.changes = 1]

\* the mutant: the table was created without the CHECK on gender
InsertOrIgnoreNoCheck(cx, row) ==
  IF cx.error # NoError THEN cx
  ELSE IF TEmployees \notin cx.schema THEN Raise(cx, "OperationalError")
  ELSE LET rowid == Max(cx.seq, MaxRowid(cx.employees)) + 1
           violates == UxEmployees \in cx.schema /\ HasKey(cx.employees, row[1], row[2])
       IN IF violates
          THEN [cx EXCEPT !.seq = rowid, !.changes = 0]
          ELSE [cx EXCEPT !.employees = Append(@,
                            [full_name |-> row[1], birth_date |-> row[2],
                             gender |-> row[3], id |-> rowid]),
                          !.seq = rowid, !.changes = 1]

\* INSERT OR IGNORE INTO employees (full_name, birth_date, gender) VALUES (?, ?, ?)
\* A row that violates the unique index or the CHECK on gender is skipped;
\* the rowid it was given stays consumed in sqlite_sequence.
InsertOrIgnore(cx, row) ==
  IF cx.error # NoError THEN cx
  ELSE IF TEmployees \notin cx.schema THEN Raise(cx, "OperationalError")
  ELSE LET rowid == Max(cx.seq, MaxRowid(cx.employees)) + 1
           violates ==
             \/ UxEmployees \in cx.schema /\ HasKey(cx.employees, row[1], row[2])
             \/ row[3] \notin {Male, Female}
       IN IF violates
          THEN [cx EXCEPT !.seq = rowid, !.changes = 0]
          ELSE [cx EXCEPT !.employees = Append(@,
                            [full_name |-> row[1], birth_date |-> row[2],
                             gender |-> row[3], id |-> rowid]),
                          !.seq = rowid, !.changes = 1]

\* connection.executemany(INSERT OR IGNORE ..., rows): one statement per row
RECURSIVE ExecuteManyInsertOrIgnore(_, _)
ExecuteManyInsertOrIgnore(cx, rows) ==
  IF rows = <<>> THEN cx
  ELSE ExecuteManyInsertOrIgnore(InsertOrIgnore(cx, Head(rows)), Tail(rows))

(***************************************************************************)
(* EmployeeRepository                                                      *)
(***************************************************************************)
create_schema(db) ==
  LET cx == CreateUniqueIndex(CreateTableEmployees(Begin(db)))
  IN Transaction(db, cx, NoRet)

\* the mutant: the return value does not look at changes()
insert_employee_always(db, employee) ==
  LET cx == InsertOrIgnore(Begin(db), to_row(employee))
  IN Transaction(db, cx, [inserted |-> TRUE])

insert_employee(db, employee) ==
  LET cx == InsertOrIgnore(Begin(db), to_row(employee))
      inserted == cx.changes
  IN Transaction(db, cx, [inserted |-> inserted > 0])

\* the for loop of bulk_insert over the batches chunked yields
RECURSIVE bulkLoop(_, _, _)
bulkLoop(cx, batches, inserted) ==
  IF batches = <<>> \/ cx.error # NoError THEN [cx |-> cx, inserted |-> inserted]
  ELSE LET batch == Head(batches)
           rows == [i \in 1..Len(batch) |-> to_row(batch[i])]
           after == ExecuteManyInsertOrIgnore(cx, rows)
       IN bulkLoop(after, Tail(batches), inserted + after.changes)

\* the with block of bulk_insert; failing: the iterable raises after its
\* last item instead of ending.  cx is the connection state when the block
\* is left, ret the value the return statement would give.
bulk_insert_body(db, iterable, batch_size, failing) ==
  LET ch == chunked(iterable, batch_size, failing)
      loop == bulkLoop(Begin(db), ch.batches, 0)
      cx == IF loop.cx.error = NoError /\ ch.error # NoError
            THEN Raise(loop.cx, ch.error)
            ELSE loop.cx
  IN [cx |-> cx, ret |-> [count |-> loop.inserted]]

\* the mutant: every batch is written in a transaction of its own
RECURSIVE bulkLoopPerBatch(_, _, _)
bulkLoopPerBatch(db, batches, inserted) ==
  IF batches = <<>> THEN [error |-> NoError, db |-> db, inserted |-> inserted]
  ELSE LET batch == Head(batches)
           rows == [i \in 1..Len(batch) |-> to_row(batch[i])]
           after == ExecuteManyInsertOrIgnore(Begin(db), rows)
       IN IF after.error # NoError
          THEN [error |-> after.error, db |-> db, inserted |-> inserted]
          ELSE bulkLoopPerBatch(Content(after), Tail(batches), inserted + after.changes)

bulk_insert_per_batch(db, iterable, batch_size, failing) ==
  LET ch == chunked(iterable, batch_size, failing)
      loop == bulkLoopPerBatch(db, ch.batches, 0)
  IN IF loop.error # NoError THEN [db |-> loop.db, ret |-> NoRet, raised |-> loop.error]
     ELSE IF ch.error # NoError THEN [db |-> loop.db, ret |-> NoRet, raised |-> ch.error]
     ELSE [db |-> loop.db, ret |-> [count |-> loop.inserted], raised |-> NoError]

bulk_insert(db, iterable, batch_size, failing) ==
  LET body == bulk_insert_body(db, iterable, batch_size, failing)
  IN Transaction(db, body.cx, body.ret)

\* the mutant: the ORDER BY clause is missing
AnyOrder(rows) ==
  IF rows = {} THEN {<<>>}
  ELSE LET n == Cardinality(rows)
       IN { f \in [1..n -> rows] : \A i, j \in 1..n : i # j => f[i] # f[j] }

\* the orders ORDER BY full_name allows for a set of rows: rows with equal
\* full_name come in an order the statement does not fix
RECURSIVE OrderByFullName(_)
OrderByFullName(rows) ==
  IF rows = {} THEN {<<>>}
  ELSE UNION { { <<r>> \o rest : rest \in OrderByFullName(rows \ {r}) } :
               r \in { m \in rows : \A o \in rows : TextLE(m.full_name, o.full_name) } }

\* [Employee.from_strings(row[0], row[1], row[2]) for row in rows]
Decode(rows) ==
  LET decoded == [i \in 1..Len(rows) |->
                    from_strings(rows[i].full_name, rows[i].birth_date, rows[i].gender)]
  IN IF \E i \in 1..Len(rows) : decoded[i].error # NoError
     THEN [error |-> "ValueError", list |-> <<>>]
     ELSE [error |-> NoError, list |-> [i \in 1..Len(rows) |-> decoded[i].employee]]

\* the outcomes of a SELECT whose result rows may come in any of orders
Select(db, table, orders) ==
  IF table \notin db.schema
  THEN { [db |-> db, ret |-> NoRet, raised |-> "OperationalError"] }
  ELSE { LET d == Decode(rows)
         IN IF d.error # NoError
            THEN [db |-> db, ret |-> NoRet, raised |-> d.error]
            ELSE [db |-> db, ret |-> [list |-> d.list], raised |-> NoError]
         : rows \in orders }

\* SELECT MIN(id) AS min_id FROM employees GROUP BY full_name, birth_date
MinIds(rows) ==
  { CHOOSE id \in { o.id : o \in { x \in Range(rows) :
                       x.full_name = r.full_name /\ x.birth_date = r.birth_date } } :
      \A o \in Range(rows) :
        (o.full_name = r.full_name /\ o.birth_date = r.birth_date) => id <= o.id
    : r \in Range(rows) }

\* FROM employees e JOIN (...) uniq ON e.id = uniq.min_id
UniqueRows(rows) == { r \in Range(rows) : r.id \in MinIds(rows) }

\* the set of outcomes of fetch_unique_sorted()
fetch_unique_sorted(db) ==
  Select(db, TEmployees, OrderByFullName(UniqueRows(db.employees)))

\* full_name LIKE 'F%': LIKE folds the case of ASCII letters
LikeF(full_name) == full_name # <<>> /\ Upper(full_name[1]) = Upper(70)

\* the mutant: once the index exists the prefix is matched by an index
\* range, which compares the case
MaleSurnameFRowsByIndex(db) ==
  { r \in Range(db.employees) :
      /\ r.gender = Male
      /\ IF IxEmployees \in db.schema
         THEN r.full_name # <<>> /\ r.full_name[1] = 70
         ELSE LikeF(r.full_name) }

\* FROM employees WHERE gender = 'Male' AND full_name LIKE 'F%'
MaleSurnameFRows(db) ==
  { r \in Range(db.employees) : r.gender = Male /\ LikeF(r.full_name) }

\* the set of outcomes of fetch_male_surname_f()
fetch_male_surname_f(db) ==
  Select(db, TEmployees, OrderByFullName(MaleSurnameFRows(db)))

\* CREATE INDEX IF NOT EXISTS ix_employees_gender_fullname ON employees (...)
CreateIndexEmployees(cx) ==
  IF cx.error # NoError \/ IxEmployees \in cx.schema THEN cx
  ELSE IF TEmployees \notin cx.schema THEN Raise(cx, "OperationalError")
  ELSE [cx EXCEPT !.schema = @ \cup {IxEmployees}]

create_gender_surname_index(db) ==
  Transaction(db, CreateIndexEmployees(Begin(db)), NoRet)

\* main.py mode_optimize: list the filtered employees, create the index,
\* list them again; the outcome carries the two listings
mode_optimize(db) ==
  UNION { IF before.raised # NoError THEN {before}
          ELSE LET created == create_gender_surname_index(before.db)
               IN IF created.raised # NoError THEN {created}
                  ELSE { IF after.raised # NoError THEN after
                         ELSE [db |-> after.db,
                               ret |-> [after |-> after.ret.list,
                                        before |-> before.ret.list],
                               raised |-> NoError]
                         : after \in fetch_male_surname_f(created.db) }
          : before \in fetch_male_surname_f(db) }

\* CREATE TABLE IF NOT EXISTS compressed_employees (...) WITHOUT ROWID
CreateTableCompressed(cx) ==
  IF cx.error # NoError \/ TCompressed \in cx.schema THEN cx
  ELSE [cx EXCEPT !.schema = @ \cup {TCompressed}, !.compressed = {}]

\* CREATE INDEX IF NOT EXISTS ix_compressed_gender_fullname
CreateIndexCompressed(cx) ==
  IF cx.error # NoError \/ IxCompressed \in cx.schema THEN cx
  ELSE IF TCompressed \notin cx.schema THEN Raise(cx, "OperationalError")
  ELSE [cx EXCEPT !.schema = @ \cup {IxCompressed}]

create_compressed_table(db) ==
  Transaction(db, CreateIndexCompressed(CreateTableCompressed(Begin(db))), NoRet)

\* the mutant: the table is not cleared before the rows are inserted
DeleteNothing(cx) ==
  IF cx.error # NoError THEN cx
  ELSE IF TCompressed \notin cx.schema THEN Raise(cx, "OperationalError")
  ELSE [cx EXCEPT !.changes = 0]

\* DELETE FROM compressed_employees
DeleteCompressed(cx) ==
  IF cx.error # NoError THEN cx
  ELSE IF TCompressed \notin cx.schema THEN Raise(cx, "OperationalError")
  ELSE [cx EXCEPT !.changes = Cardinality(cx.compressed), !.compressed = {}]

\* INSERT INTO compressed_employees (...) VALUES (?, ?, ?, ?): a row whose
\* primary key (full_name, birth_date) is taken fails the statement
InsertCompressed(cx, row) ==
  IF cx.error # NoError THEN cx
  ELSE IF TCompressed \notin cx.schema THEN Raise(cx, "OperationalError")
  ELSE IF \E r \in cx.compressed : r.full_name = row[1] /\ r.birth_date = row[2]
  THEN Raise(cx, "IntegrityError")
  ELSE [cx EXCEPT !.compressed = @ \cup
                     {[full_name |-> row[1], birth_date |-> row[2],
                       gender |-> row[3], compressed_payload |-> row[4]]},
                  !.changes = 1]

\* connection.executemany(INSERT INTO compressed_employees ..., rows)
RECURSIVE ExecuteManyInsertCompressed(_, _)
ExecuteManyInsertCompressed(cx, rows) ==
  IF rows = <<>> THEN cx
  ELSE ExecuteManyInsertCompressed(InsertCompressed(cx, Head(rows)), Tail(rows))

\* the with block of replace_compressed_rows
replace_compressed_rows_body(db, rows) ==
  LET cx == ExecuteManyInsertCompressed(DeleteCompressed(Begin(db)), rows)
      inserted == cx.changes
  IN [cx |-> cx, ret |-> [count |-> inserted]]

\* the mutant: the DELETE is committed before the transaction of the inserts
replace_compressed_rows_delete_first(db, rows) ==
  LET body == replace_compressed_rows_body(db, rows)
      cleared == DeleteCompressed(Begin(db))
  IN IF cleared.error # NoError THEN Transaction(db, cleared, NoRet)
     ELSE Transaction(Content(cleared), body.cx, body.ret)

replace_compressed_rows(db, rows) ==
  LET body == replace_compressed_rows_body(db, rows)
  IN Transaction(db, body.cx, body.ret)

\* the set of outcomes of fetch_compressed_subset()
fetch_compressed_subset(db) ==
  IF TCompressed \notin db.schema
  THEN { [db |-> db, ret |-> NoRet, raised |-> "OperationalError"] }
  ELSE { [db |-> db,
          ret |-> [list |-> [i \in 1..Len(rows) |->
                     <<rows[i].full_name, rows[i].birth_date, rows[i].gender,
                       rows[i].compressed_payload>>]],
          raised |-> NoError]
         : rows \in OrderByFullName({ r \in db.compressed :
                                        r.gender = Male /\ LikeF(r.full_name) }) }

RECURSIVE SumLength(_)
SumLength(rows) ==
  IF rows = {} THEN 0
  ELSE LET r == CHOOSE x \in rows : TRUE
       IN Len(r.compressed_payload) + SumLength(rows \ {r})

\* SELECT COUNT(*), IFNULL(SUM(LENGTH(compressed_payload)), 0)
compressed_table_stats(db) ==
  IF TCompressed \notin db.schema
  THEN [db |-> db, ret |-> NoRet, raised |-> "OperationalError"]
  ELSE [db |-> db,
        ret |-> [count |-> Cardinality(db.compressed),
                 total_bytes |-> SumLength(db.compressed)],
        raised |-> NoError]

(***************************************************************************)
(* json, str.encode / bytes.decode and gzip as main.py uses them           *)
(***************************************************************************)
\* the concatenation of parts[lo..hi]
RECURSIVE Concat(_, _, _)
Concat(parts, lo, hi) ==
  IF lo > hi THEN <<>>
  ELSE IF lo = hi THEN parts[lo]
  ELSE Concat(parts, lo, (lo + hi) \div 2) \o Concat(parts, (lo + hi) \div 2 + 1, hi)

Flatten(parts) == Concat(parts, 1, Len(parts))

\* the values of a JSON object: a text or an integer
JsonStr(text) == [text |-> text, kind |-> "str", int |-> 0]

JsonInt(n) == [text |-> <<>>, kind |-> "int", int |-> n]

HexDigit(n) == IF n < 10 THEN 48 + n ELSE 87 + n

\* json.dumps of one character of a str with ensure_ascii=False: the
\* quote, the backslash and the control characters are escaped
EscapeChar(c) ==
  IF c = 34 THEN <<92, 34>>
  ELSE IF c = 92 THEN <<92, 92>>
  ELSE IF c = 10 THEN <<92, 110>>
  ELSE IF c = 13 THEN <<92, 114>>
  ELSE IF c = 9 THEN <<92, 116>>
  ELSE IF c = 8 THEN <<92, 98>>
  ELSE IF c = 12 THEN <<92, 102>>
  ELSE IF c < 32 THEN <<92, 117, 48, 48, HexDigit(c \div 16), HexDigit(c % 16)>>
  ELSE <<c>>

DumpStr(text) ==
  <<34>> \o Flatten([i \in 1..Len(text) |-> EscapeChar(text[i])]) \o <<34>>

RECURSIVE DumpNat(_)
DumpNat(n) == IF n < 10 THEN <<Digit(n)>> ELSE Append(DumpNat(n \div 10), Digit(n % 10))

DumpInt(n) == IF n < 0 THEN <<45>> \o DumpNat(0 - n) ELSE DumpNat(n)

DumpValue(v) == IF v.kind = "str" THEN DumpStr(v.text) ELSE DumpInt(v.int)

\* json.dumps(obj, ensure_ascii=False) of a dict, a list of items in
\* insertion order: {"key": value, "key": value}
json_dumps(obj) ==
  <<123>>
  \o Flatten([i \in 1..Len(obj) |->
       (IF i > 1 THEN <<44, 32>> ELSE <<>>)
       \o DumpStr(obj[i].key) \o <<58, 32>> \o DumpValue(obj[i].value)])
  \o <<125>>

\* str.encode("utf-8") of one code point
EncodeChar(c) ==
  IF c < 128 THEN <<c>>
  ELSE IF c < 2048 THEN <<192 + (c \div 64), 128 + (c % 64)>>
  ELSE <<224 + (c \div 4096), 128 + ((c \div 64) % 64), 128 + (c % 64)>>

encode(text) == Flatten([i \in 1..Len(text) |-> EncodeChar(text[i])])

\* the length of the character a lead byte announces, 0 if it is none
CharLen(b) ==
  IF b < 128 THEN 1
  ELSE IF b >= 194 /\ b < 224 THEN 2
  ELSE IF b >= 224 /\ b < 240 THEN 3
  ELSE 0

\* bytes.decode("utf-8"): the text, or UnicodeDecodeError
decode(bytes) ==
  LET n == Len(bytes)
      IsCont(i) == bytes[i] >= 128 /\ bytes[i] < 192
      leads == SelectSeq([i \in 1..n |-> i], LAMBDA i : ~IsCont(i))
      Char(i) ==
        IF CharLen(bytes[i]) = 1 THEN bytes[i]
        ELSE IF CharLen(bytes[i]) = 2
        THEN (bytes[i] - 192) * 64 + (bytes[i + 1] - 128)
        ELSE (bytes[i] - 224) * 4096 + (bytes[i + 1] - 128) * 64 + (bytes[i + 2] - 128)
      WellFormed(i) ==
        /\ CharLen(bytes[i]) > 0
        /\ i + CharLen(bytes[i]) - 1 <= n
        /\ \A k \in 1..(CharLen(bytes[i]) - 1) : IsCont(i + k)
        /\ i + CharLen(bytes[i]) <= n => ~IsCont(i + CharLen(bytes[i]))
        /\ CharLen(bytes[i]) = 3 => Char(i) >= 2048
  IN IF (n > 0 /\ IsCont(1)) \/ \E k \in 1..Len(leads) : ~WellFormed(leads[k])
     THEN [error |-> "UnicodeDecodeError", text |-> <<>>]
     ELSE [error |-> NoError, text |-> [k \in 1..Len(leads) |-> Char(leads[k])]]

JsonError == [error |-> "JSONDecodeError", value |-> JsonInt(0), next |-> 0]

\* a character of s, 0 past the end
At(s, i) == IF i >= 1 /\ i <= Len(s) THEN s[i] ELSE 0

RECURSIVE SkipWs(_, _)
SkipWs(s, i) == IF At(s, i) \in {32, 9, 10, 13} THEN SkipWs(s, i + 1) ELSE i

IsHex(c) == (c >= 48 /\ c <= 57) \/ (c >= 97 /\ c <= 102) \/ (c >= 65 /\ c <= 70)

HexValue(c) == IF c <= 57 THEN c - 48 ELSE IF c >= 97 THEN c - 87 ELSE c - 55

\* the characters of a JSON string after its opening quote
RECURSIVE ParseChars(_, _, _)
ParseChars(s, i, text) ==
  LET c == At(s, i)
      e == At(s, i + 1)
  IN IF c = 34 THEN [error |-> NoError, value |-> JsonStr(text), next |-> i + 1]
     ELSE IF c < 32 THEN JsonError
     ELSE IF c # 92 THEN ParseChars(s, i + 1, Append(text, c))
     ELSE IF e \in {34, 92, 47} THEN ParseChars(s, i + 2, Append(text, e))
     ELSE IF e = 110 THEN ParseChars(s, i + 2, Append(text, 10))
     ELSE IF e = 114 THEN ParseChars(s, i + 2, Append(text, 13))
     ELSE IF e = 116 THEN ParseChars(s, i + 2, Append(text, 9))
     ELSE IF e = 98 THEN ParseChars(s, i + 2, Append(text, 8))
     ELSE IF e = 102 THEN ParseChars(s, i + 2, Append(text, 12))
     ELSE IF e = 117 /\ \A k \in 2..5 : IsHex(At(s, i + k))
     THEN ParseChars(s, i + 6,
            Append(text, HexValue(s[i + 2]) * 4096 + HexValue(s[i + 3]) * 256
                         + HexValue(s[i + 4]) * 16 + HexValue(s[i + 5])))
     ELSE JsonError

ParseStr(s, i) == IF At(s, i) = 34 THEN ParseChars(s, i + 1, <<>>) ELSE JsonError

RECURSIVE ParseDigits(_, _, _)
ParseDigits(s, i, n) ==
  IF IsDigit(At(s, i)) THEN ParseDigits(s, i + 1, n * 10 + (s[i] - 48))
  ELSE [error |-> NoError, value |-> JsonInt(n), next |-> i]

\* an integer: -?(0|[1-9][0-9]*)
ParseInt(s, i) ==
  LET j == IF At(s, i) = 45 THEN i + 1 ELSE i
      digits == ParseDigits(s, j, 0)
  IN IF ~IsDigit(At(s, j)) \/ (At(s, j) = 48 /\ IsDigit(At(s, j + 1))) THEN JsonError
     ELSE IF j > i
     THEN [digits EXCEPT !.value = JsonInt(0 - digits.value.int)]
     ELSE digits

\* a value of the objects main.py stores: a string or an integer
ParseValue(s, i) == IF At(s, i) = 34 THEN ParseStr(s, i) ELSE ParseInt(s, i)

\* dict[key] = value: a repeated key keeps its place and takes the new value
DictSet(obj, key, value) ==
  IF \E k \in 1..Len(obj) : obj[k].key = key
  THEN [k \in 1..Len(obj) |-> IF obj[k].key = key THEN [obj[k] EXCEPT !.value = value]
                              ELSE obj[k]]
  ELSE Append(obj, [key |-> key, value |-> value])

\* the members of an object, from the first key to the closing brace
RECURSIVE ParseMembers(_, _, _)
ParseMembers(s, i, obj) ==
  LET key == ParseStr(s, i)
      colon == SkipWs(s, key.next)
      value == ParseValue(s, SkipWs(s, colon + 1))
      after == SkipWs(s, value.next)
  IN IF key.error # NoError \/ At(s, colon) # 58 \/ value.error # NoError
     THEN [error |-> "JSONDecodeError", obj |-> <<>>, next |-> 0]
     ELSE IF At(s, after) = 44
     THEN ParseMembers(s, SkipWs(s, after + 1), DictSet(obj, key.value.text, value.value))
     ELSE IF At(s, after) = 125
     THEN [error |-> NoError, obj |-> DictSet(obj, key.value.text, value.value),
           next |-> after + 1]
     ELSE [error |-> "JSONDecodeError", obj |-> <<>>, next |-> 0]

\* json.loads(s) of the text of an object: the dict, or JSONDecodeError
json_loads(s) ==
  LET start == SkipWs(s, 1)
      first == SkipWs(s, start + 1)
      members == IF At(s, first) = 125
                 THEN [error |-> NoError, obj |-> <<>>, next |-> first + 1]
                 ELSE ParseMembers(s, first, <<>>)
  IN IF At(s, start) # 123 \/ members.error # NoError
     THEN [error |-> "JSONDecodeError", obj |-> <<>>]
     ELSE IF SkipWs(s, members.next) # Len(s) + 1
     THEN [error |-> "JSONDecodeError", obj |-> <<>>]
     ELSE [error |-> NoError, obj |-> members.obj]

\* little-endian fields of the gzip member
LE16(n) == <<n % 256, n \div 256>>

LE32(n) ==
  <<n % 256, (n \div 256) % 256, (n \div 65536) % 256, n \div 16777216>>

FromLE16(bytes, i) == bytes[i] + 256 * bytes[i + 1]

FromLE32(bytes, i) ==
  bytes[i] + 256 * bytes[i + 1] + 65536 * bytes[i + 2] + 16777216 * bytes[i + 3]

\* the integrity field of the trailer: a function of the uncompressed bytes
\* that the reader recomputes and compares (the byte sum stands for the
\* CRC-32 polynomial)
RECURSIVE SumBytes(_, _, _)
SumBytes(raw, lo, hi) ==
  IF lo > hi THEN 0
  ELSE IF lo = hi THEN raw[lo]
  ELSE SumBytes(raw, lo, (lo + hi) \div 2) + SumBytes(raw, (lo + hi) \div 2 + 1, hi)

Checksum(raw) == SumBytes(raw, 1, Len(raw))

\* the deflate stream of raw as one final stored block (the block type an
\* inflater accepts for any input of fewer than 65536 bytes)
Deflate(raw) == <<1>> \o LE16(Len(raw)) \o LE16(65535 - Len(raw)) \o raw

\* gzip.compress(raw): the 10 byte header with the time of the call,
\* the deflate stream, the checksum and the length of raw
gzip_compress(raw, mtime) ==
  <<31, 139, 8, 0>> \o LE32(mtime) \o <<2, 255>>
  \o Deflate(raw) \o LE32(Checksum(raw)) \o LE32(Len(raw))

\* gzip.decompress(data): the uncompressed bytes, or BadGzipFile
gzip_decompress(data) ==
  LET bad == [error |-> "BadGzipFile", data |-> <<>>]
      n == FromLE16(data, 12)
      raw == SubSeq(data, 16, 15 + n)
  IN IF Len(data) < 23 \/ SubSeq(data, 1, 4) # <<31, 139, 8, 0>> THEN bad
     ELSE IF data[11] # 1 \/ FromLE16(data, 14) # 65535 - n THEN bad
     ELSE IF Len(data) # 23 + n THEN bad
     ELSE IF FromLE32(data, 16 + n) # Checksum(raw) \/ FromLE32(data, 20 + n) # n THEN bad
     ELSE [error |-> NoError, data |-> raw]

(***************************************************************************)
(* main.py: mode_compressed_table                                          *)
(***************************************************************************)
KeyFullName == <<102, 117, 108, 108, 95, 110, 97, 109, 101>>

KeyBirthDate == <<98, 105, 114, 116, 104, 95, 100, 97, 116, 101>>

KeyGender == <<103, 101, 110, 100, 101, 114>>

KeyAge == <<97, 103, 101>>

\* the mutant: the age stored is the difference of the years
payload_age_by_year(employee, today) ==
  << [key |-> KeyFullName, value |-> JsonStr(employee.full_name)],
     [key |-> KeyBirthDate, value |-> JsonStr(isoformat(employee.birth_date))],
     [key |-> KeyGender, value |-> JsonStr(employee.gender)],
     [key |-> KeyAge, value |-> JsonInt(today[1] - employee.birth_date[1])] >>

\* the dict payload built for one employee; today is date.today()
payload(employee, today) ==
  << [key |-> KeyFullName, value |-> JsonStr(employee.full_name)],
     [key |-> KeyBirthDate, value |-> JsonStr(isoformat(employee.birth_date))],
     [key |-> KeyGender, value |-> JsonStr(employee.gender)],
     [key |-> KeyAge, value |-> JsonInt(age(employee, today))] >>

\* json.loads(gzip.decompress(payload).decode("utf-8"))
Restore(bytes) ==
  LET raw == gzip_decompress(bytes)
      text == decode(raw.data)
      loaded == json_loads(text.text)
  IN IF raw.error # NoError THEN [error |-> raw.error, obj |-> <<>>]
     ELSE IF text.error # NoError THEN [error |-> text.error, obj |-> <<>>]
     ELSE loaded

\* what mode_compressed_table leaves behind when it returns: the dicts it
\* compressed, the tuples it handed over, the count printed, the dicts
\* restored from the compressed table, the two sizes it compares
ModeRet(payloads, rows, inserted, restored, compressed_size, plain_bytes) ==
  [rows |-> rows, inserted |-> inserted, payloads |-> payloads,
   restored |-> restored, compressed_size |-> compressed_size,
   plain_bytes |-> plain_bytes]

RECURSIVE SumLen(_)
SumLen(list) == IF list = <<>> THEN 0 ELSE Len(Head(list)) + SumLen(Tail(list))

\* the part of mode_compressed_table after the early return: found is the
\* non-empty list fetch_male_surname_f gave.  The second, timed call of
\* fetch_male_surname_f reads the same rows and its result is dropped.
ModeRefresh(db, found, today, mtime) ==
  LET created == create_compressed_table(db)
      payloads == [i \in 1..Len(found) |-> payload(found[i], today)]
      raws == [i \in 1..Len(found) |-> encode(json_dumps(payloads[i]))]
      compressed_rows ==
        [i \in 1..Len(found) |->
           <<found[i].full_name, isoformat(found[i].birth_date), found[i].gender,
             gzip_compress(raws[i], mtime)>>]
      replaced == replace_compressed_rows(created.db, compressed_rows)
      stats == compressed_table_stats(replaced.db)
  IN IF created.raised # NoError THEN {created}
     ELSE IF replaced.raised # NoError THEN {replaced}
     ELSE { IF subset.raised # NoError THEN subset
            ELSE LET restored == [i \in 1..Len(subset.ret.list) |->
                                    Restore(subset.ret.list[i][4])]
                 IN IF \E i \in 1..Len(restored) : restored[i].error # NoError
                    THEN [db |-> subset.db, ret |-> NoRet,
                          raised |-> restored[CHOOSE i \in 1..Len(restored) :
                                        /\ restored[i].error # NoError
                                        /\ \A j \in 1..(i - 1) :
                                             restored[j].error = NoError].error]
                    ELSE IF stats.raised # NoError THEN stats
                    ELSE [db |-> stats.db,
                          ret |-> ModeRet(payloads, compressed_rows, replaced.ret.count,
                                          [i \in 1..Len(restored) |-> restored[i].obj],
                                          stats.ret.total_bytes, SumLen(raws)),
                          raised |-> NoError]
            : subset \in fetch_compressed_subset(replaced.db) }

\* the set of outcomes of mode_compressed_table(repository)
mode_compressed_table(db, today, mtime) ==
  LET indexed == create_gender_surname_index(db)
  IN IF indexed.raised # NoError THEN {indexed}
     ELSE UNION { IF fetched.raised # NoError THEN {fetched}
                  ELSE IF fetched.ret.list = <<>>
                  THEN { [db |-> fetched.db,
                          ret |-> ModeRet(<<>>, <<>>, 0, <<>>, 0, 0),
                          raised |-> NoError] }
                  ELSE ModeRefresh(fetched.db, fetched.ret.list, today, mtime)
                  : fetched \in fetch_male_surname_f(indexed.db) }

(***************************************************************************)
(* The calls.                                                              *)
(***************************************************************************)
\* the sequences of at most n elements of S
RECURSIVE SeqsUpTo(_, _)
SeqsUpTo(S, n) ==
  IF n = 0 THEN {<<>>}
  ELSE LET shorter == SeqsUpTo(S, n - 1)
       IN shorter \cup { Append(q, x) : q \in shorter, x \in S }

BatchSizes == 1..MaxBatch

\* the tuples handed to replace_compressed_rows: two share a key
CompressedRows ==
  { <<NameFa, isoformat(Date1), Male, Payload1>>,
    <<NameFa, isoformat(Date1), Male, Payload2>>,
    <<NameFa, isoformat(Date2), Male, Payload1>>,
    <<NameGa, isoformat(Date1), Female, Payload2>> }

\* the records handed to bulk_insert: two share a key and differ in gender
BulkEmployees ==
  { Employee(NameFa, Date1, Male),
    Employee(NameFa, Date1, Female),
    Employee(NameFa, Date2, Male) }

CreateSchema ==
  Returns("create_schema", NoArgs, create_schema(DB))

InsertEmployee ==
  \E employee \in Employees :
    /\ TEmployees \in schema => seq < MaxSeq
    /\ Returns("insert_employee", [employee |-> employee], insert_employee(DB, employee))

\* bulk_insert over an iterable that ends normally
BulkInsert ==
  \E iterable \in SeqsUpTo(BulkEmployees, MaxLen), batch_size \in BatchSizes :
    /\ TEmployees \in schema => seq + Len(iterable) <= MaxSeq
    /\ Returns("bulk_insert",
               [failing |-> FALSE, employees |-> iterable, batch_size |-> batch_size],
               bulk_insert(DB, iterable, batch_size, FALSE))

\* the records a failing iterable yields before it raises
FailingEmployees ==
  { Employee(NameFa, Date1, Male),
    Employee(NameFa, Date2, Male) }

\* bulk_insert over an iterable that raises after its last item
BulkInsertFailing ==
  \E iterable \in SeqsUpTo(FailingEmployees, MaxLen), batch_size \in BatchSizes :
    /\ TEmployees \in schema => seq + Len(iterable) <= MaxSeq
    /\ Returns("bulk_insert",
               [failing |-> TRUE, employees |-> iterable, batch_size |-> batch_size],
               bulk_insert(DB, iterable, batch_size, TRUE))

\* records built by the constructor, which does not check the gender:
\* Employee("Ga", ..., "other") and Employee("Fa", ..., "")
UncheckedEmployees ==
  { Employee(NameGa, Date2, <<111, 116, 104, 101, 114>>),
    Employee(NameFa, Date1, <<>>) }

\* insert_employee of a record whose gender is neither Male nor Female
InsertUnchecked ==
  \E employee \in UncheckedEmployees :
    /\ TEmployees \in schema => seq < MaxSeq
    /\ Returns("insert_employee", [employee |-> employee], insert_employee(DB, employee))

\* the tuples handed to replace_compressed_rows next to the other calls:
\* one key with two payloads
FewCompressedRows ==
  { <<NameFa, isoformat(Date1), Male, Payload1>>,
    <<NameFa, isoformat(Date1), Male, Payload2>> }

\* the writes with few records, for the runs that mix every call
InsertFew ==
  \E employee \in FailingEmployees :
    /\ TEmployees \in schema => seq < MaxSeq
    /\ Returns("insert_employee", [employee |-> employee], insert_employee(DB, employee))

BulkInsertFew ==
  \E iterable \in SeqsUpTo(FailingEmployees, MaxLen), batch_size \in BatchSizes :
    /\ TEmployees \in schema => seq + Len(iterable) <= MaxSeq
    /\ Returns("bulk_insert",
               [failing |-> FALSE, employees |-> iterable, batch_size |-> batch_size],
               bulk_insert(DB, iterable, batch_size, FALSE))

ReplaceFew ==
  \E rows \in SeqsUpTo(FewCompressedRows, MaxLen) :
    Returns("replace_compressed_rows", [rows |-> rows], replace_compressed_rows(DB, rows))

FetchUniqueSorted ==
  \E out \in fetch_unique_sorted(DB) : Returns("fetch_unique_sorted", NoArgs, out)

FetchMaleSurnameF ==
  \E out \in fetch_male_surname_f(DB) : Returns("fetch_male_surname_f", NoArgs, out)

CreateGenderSurnameIndex ==
  Returns("create_gender_surname_index", NoArgs, create_gender_surname_index(DB))

ModeOptimize ==
  \E out \in mode_optimize(DB) : Returns("mode_optimize", NoArgs, out)

CreateCompressedTable ==
  Returns("create_compressed_table", NoArgs, create_compressed_table(DB))

ReplaceCompressedRows ==
  \E rows \in SeqsUpTo(CompressedRows, MaxLen) :
    Returns("replace_compressed_rows", [rows |-> rows], replace_compressed_rows(DB, rows))

FetchCompressedSubset ==
  \E out \in fetch_compressed_subset(DB) : Returns("fetch_compressed_subset", NoArgs, out)

CompressedTableStats ==
  Returns("compressed_table_stats", NoArgs, compressed_table_stats(DB))

\* the records stored before mode_compressed_table runs
ModeEmployees ==
  { Employee(NameFq, Date1, Male),
    Employee(NameFe, Date2, Male),
    Employee(NameGa, Date1, Female) }

\* date.today() during the call: the day before a birthday and the birthday
Todays == { <<2026, 5, 14>>, <<2026, 5, 15>> }

\* int(time.time()) when gzip.compress writes its header
Mtimes == { 1793664000, 1793750400 }

InsertModeEmployee ==
  \E employee \in ModeEmployees :
    /\ TEmployees \in schema => seq < MaxSeq
    /\ Returns("insert_employee", [employee |-> employee], insert_employee(DB, employee))

ModeCompressedTable ==
  \E today \in Todays, mtime \in Mtimes :
    \E out \in mode_compressed_table(DB, today, mtime) :
      Returns("mode_compressed_table", [today |-> today, mtime |-> mtime], out)

\* Database.connect() called on its own
Connect ==
  /\ Connected
  /\ UNCHANGED <<employees, seq, schema, compressed, in_transaction>>
  /\ lastOp' = [ret |-> [connection |-> connect(Conn).connection], raised |-> NoError,
                op |-> "connect", args |-> NoArgs]

\* Database.close()
Close ==
  /\ connection' = close(Conn).connection
  /\ opened' = close(Conn).opened
  /\ pragmas' = close(Conn).pragmas
  /\ in_transaction' = (in_transaction /\ connection = 0)
  /\ UNCHANGED <<employees, seq, schema, compressed>>
  /\ lastOp' = [ret |-> NoRet, raised |-> NoError, op |-> "close", args |-> NoArgs]

\* texts a caller may pass as gender: "male", " FEMALE ", "Male", "other", ""
RawGenders ==
  { <<109, 97, 108, 101>>,
    <<32, 70, 69, 77, 65, 76, 69, 32>>,
    Male,
    <<111, 116, 104, 101, 114>>,
    <<>> }

\* texts a caller may pass as full_name: "Fa", " Fa "
RawNames == { NameFa, <<32, 70, 97, 32>> }

\* texts a caller may pass as birth_date: two dates, 1990-02-30, "x"
RawDates ==
  { isoformat(Date1), isoformat(Date2), isoformat(<<1990, 2, 30>>), <<120>> }

\* birth dates and reference dates for Employee.age
BirthDates == { Date1, Date2, <<1990, 1, 1>>, <<1988, 2, 29>>, <<1990, 12, 31>> }

ReferenceDates ==
  { d \in (2024..2025) \X {1, 2, 3, 5, 12} \X {1, 9, 10, 11, 14, 15, 16, 28, 29, 30, 31} :
      d[3] <= DaysInMonth(d[1], d[2]) }

\* a call that touches neither the database nor the connection
Pure(op, args, ret, raised) ==
  /\ lastOp' = [ret |-> ret, raised |-> raised, op |-> op, args |-> args]
  /\ UNCHANGED <<employees, seq, schema, compressed, connection, opened, pragmas,
               in_transaction>>

\* Employee(full_name=..., birth_date=..., gender=...)
Construct ==
  \E full_name \in RawNames, birth_date \in {Date1, Date2}, gender \in RawGenders :
    Pure("Employee",
         [full_name |-> full_name, birth_date |-> birth_date, gender |-> gender],
         [employee |-> Employee(full_name, birth_date, gender)], NoError)

\* Employee.from_strings(full_name, birth_date, gender)
FromStrings ==
  \E full_name \in RawNames, birth_date \in RawDates, gender \in RawGenders :
    LET made == from_strings(full_name, birth_date, gender)
    IN Pure("from_strings",
            [full_name |-> full_name, birth_date |-> birth_date, gender |-> gender],
            [employee |-> made.employee], made.error)

\* employee.age(reference_date)
Age ==
  \E birth_date \in BirthDates, reference_date \in ReferenceDates :
    Pure("age",
         [birth_date |-> birth_date, reference_date |-> reference_date],
         [years |-> age(Employee(NameFa, birth_date, Male), reference_date)], NoError)

Init ==
  /\ employees = <<>>
  /\ seq = 0
  /\ schema = {}
  /\ compressed = {}
  /\ lastOp = [ret |-> NoRet, raised |-> NoError, op |-> "init", args |-> NoArgs]
  /\ connection = 0
  /\ opened = 0
  /\ pragmas = <<>>
  /\ in_transaction = FALSE

Next ==
  \/ CreateSchema
  \/ InsertEmployee
  \/ BulkInsert
  \/ FetchUniqueSorted
  \/ FetchMaleSurnameF
  \/ CreateGenderSurnameIndex
  \/ ModeOptimize

Spec == Init /\ [][Next]_vars

\* calls whose transaction body may fail part-way
NextFail ==
  \/ CreateSchema
  \/ InsertEmployee
  \/ BulkInsertFailing

SpecFail == Init /\ [][NextFail]_vars

\* the calls on the compressed table
NextCompressed ==
  \/ CreateCompressedTable
  \/ ReplaceCompressedRows
  \/ FetchCompressedSubset
  \/ CompressedTableStats

SpecCompressed == Init /\ [][NextCompressed]_vars

\* the compressed-table mode over stored records
NextMode ==
  \/ CreateSchema
  \/ InsertModeEmployee
  \/ ModeCompressedTable

SpecMode == Init /\ [][NextMode]_vars

\* the life of the connection around calls that commit rows
NextConn ==
  \/ Connect
  \/ Close
  \/ CreateSchema
  \/ InsertEmployee

SpecConn == Init /\ [][NextConn]_vars

\* list(chunked(iterable, size)) over an iterable that ends normally
Chunked ==
  \E iterable \in SeqsUpTo(BulkEmployees, MaxLen), size \in BatchSizes :
    LET ch == chunked(iterable, size, FALSE)
    IN Pure("chunked", [size |-> size, iterable |-> iterable],
            [batches |-> ch.batches], ch.error)

\* the records of app/models.py on their own
NextModels ==
  \/ Construct
  \/ FromStrings
  \/ Age
  \/ Chunked

SpecModels == Init /\ [][NextModels]_vars

\* the writes to the employees table, with every record a caller can build
NextWrite ==
  \/ CreateSchema
  \/ InsertEmployee
  \/ InsertUnchecked
  \/ BulkInsert
  \/ BulkInsertFailing

SpecWrite == Init /\ [][NextWrite]_vars

\* every call of the repository
NextAll ==
  \/ CreateSchema
  \/ InsertFew
  \/ BulkInsertFew
  \/ FetchUniqueSorted
  \/ FetchMaleSurnameF
  \/ CreateGenderSurnameIndex
  \/ CreateCompressedTable
  \/ ReplaceFew
  \/ FetchCompressedSubset
  \/ CompressedTableStats

SpecAll == Init /\ [][NextAll]_vars

(***************************************************************************)
(* Properties.                                                             *)
(***************************************************************************)
Returned(op) == lastOp.op = op /\ lastOp.raised = NoError

RowsWithKey(rows, full_name, birth_date) ==
  { r \in Range(rows) : r.full_name = full_name /\ r.birth_date = birth_date }

Sorted(list) ==
  \A i, j \in 1..Len(list) : i < j => TextLE(list[i].full_name, list[j].full_name)

\* the record a stored row stands for
IsRecordOf(emp, row) ==
  /\ emp.full_name = row.full_name
  /\ isoformat(emp.birth_date) = row.birth_date
  /\ emp.gender = row.gender

\* C1: two insert_employee calls with the same (full_name, birth_date) and
\* different gender, whatever is called in between, leave exactly one row
\* for the key, with the gender of the first call: a stored row is never
\* changed by a later call, an insert of a new key stores the given gender,
\* and an insert of a stored key leaves the rows of the key as they were.
C1_FirstWriterWins ==
  [][ /\ \A r \in Range(employees) : r \in Range(employees')
      /\ (lastOp'.op = "insert_employee" /\ lastOp'.raised = NoError) =>
           LET row == to_row(lastOp'.args.employee)
               before == RowsWithKey(employees, row[1], row[2])
               after == RowsWithKey(employees', row[1], row[2])
           IN /\ Cardinality(after) = 1
              /\ before = {} => \A r \in after : r.gender = row[3]
              /\ before # {} => after = before ]_vars

\* a duplicate with another gender was inserted and the stored gender stayed
C1_Witness ==
  /\ Returned("insert_employee")
  /\ \E r \in Range(employees) :
       /\ r.full_name = lastOp.args.employee.full_name
       /\ r.birth_date = isoformat(lastOp.args.employee.birth_date)
       /\ r.gender # lastOp.args.employee.gender

\* C2: on the created schema insert_employee does not raise, and returns
\* true exactly when it wrote a new row, which is exactly when no row with
\* the record's key existed before the call.
C2_InsertReturnsWritten ==
  [][ (lastOp'.op = "insert_employee" /\ TEmployees \in schema) =>
        LET row == to_row(lastOp'.args.employee)
        IN /\ lastOp'.raised = NoError
           /\ lastOp'.ret.inserted = (Len(employees') = Len(employees) + 1)
           /\ lastOp'.ret.inserted = (Range(employees') # Range(employees))
           /\ lastOp'.ret.inserted = (RowsWithKey(employees, row[1], row[2]) = {}) ]_vars

\* a duplicate key was inserted: false, no exception
C2_Witness ==
  /\ Returned("insert_employee")
  /\ ~lastOp.ret.inserted
  /\ Len(employees) >= 2

KeysOf(list) == { <<to_row(list[i])[1], to_row(list[i])[2]>> : i \in 1..Len(list) }

\* C3 as claimed: bulk_insert of N records with D duplicate keys (D < N) on
\* a table holding none of the keys returns N - D and leaves N - D rows for
\* those keys.
C3_BulkInsertCount ==
  [][ (lastOp'.op = "bulk_insert" /\ lastOp'.raised = NoError /\ TEmployees \in schema) =>
        LET list == lastOp'.args.employees
            keys == KeysOf(list)
            N == Len(list)
            D == N - Cardinality(keys)
        IN ((\A k \in keys : RowsWithKey(employees, k[1], k[2]) = {}) /\ D < N) =>
             /\ lastOp'.ret.count = N - D
             /\ Cardinality({ r \in Range(employees') :
                                <<r.full_name, r.birth_date>> \in keys }) = N - D ]_vars

\* C4 as claimed: for the same table and input every batch_size gives the
\* same returned count and the same table.
C4_BatchSizeIndependent ==
  [][ lastOp'.op = "bulk_insert" =>
        \A batch_size \in BatchSizes :
          LET other == bulk_insert(DB, lastOp'.args.employees, batch_size,
                                   lastOp'.args.failing)
          IN /\ other.raised = lastOp'.raised
             /\ other.ret = lastOp'.ret
             /\ other.db.employees = employees'
             /\ other.db.seq = seq' ]_vars

\* C5: fetch_unique_sorted returns one record per key of the table, the
\* record of the row with the smallest id of the key, in ascending order of
\* full_name, no two entries with the same key.
C5_UniqueSorted ==
  Returned("fetch_unique_sorted") =>
    LET list == lastOp.ret.list
    IN /\ Sorted(list)
       /\ \A i, j \in 1..Len(list) :
            (list[i].full_name = list[j].full_name
               /\ list[i].birth_date = list[j].birth_date) => i = j
       /\ \A r \in Range(employees) :
            \E i \in 1..Len(list) :
              \E first \in RowsWithKey(employees, r.full_name, r.birth_date) :
                /\ \A o \in RowsWithKey(employees, r.full_name, r.birth_date) : first.id <= o.id
                /\ IsRecordOf(list[i], first)
       /\ \A i \in 1..Len(list) : \E r \in Range(employees) : IsRecordOf(list[i], r)

\* three keys of two different names were listed
C5_Witness ==
  /\ Returned("fetch_unique_sorted")
  /\ Len(lastOp.ret.list) >= 3
  /\ \E i \in 1..Len(lastOp.ret.list) :
       lastOp.ret.list[i].full_name # lastOp.ret.list[1].full_name

\* C6 as claimed: fetch_male_surname_f returns exactly the rows with gender
\* 'Male' whose full_name starts with 'F' compared case-sensitively, in
\* ascending order of full_name.
C6_CaseSensitivePrefix ==
  Returned("fetch_male_surname_f") =>
    LET list == lastOp.ret.list
        matching == { r \in Range(employees) :
                        r.gender = Male /\ r.full_name # <<>> /\ r.full_name[1] = 70 }
    IN /\ Sorted(list)
       /\ Len(list) = Cardinality(matching)
       /\ \A r \in matching : \E i \in 1..Len(list) : IsRecordOf(list[i], r)
       /\ \A i \in 1..Len(list) : \E r \in matching : IsRecordOf(list[i], r)

\* C7 as claimed: the listing before and the listing after the index is
\* created are the same rows in the same order.
C7_SameOrder ==
  Returned("mode_optimize") => lastOp.ret.before = lastOp.ret.after

\* C7 amended: the two listings hold the same rows, both in ascending order
\* of full_name (equal at every position in full_name); creating the index
\* changes no row, and creating it again changes nothing.
C7_SameRows ==
  [][ /\ (lastOp'.op = "mode_optimize" /\ lastOp'.raised = NoError) =>
           LET before == lastOp'.ret.before
               after == lastOp'.ret.after
           IN /\ Range(before) = Range(after)
              /\ Len(before) = Len(after)
              /\ Sorted(before)
              /\ Sorted(after)
              /\ \A i \in 1..Len(before) : before[i].full_name = after[i].full_name
      /\ lastOp'.op \in {"mode_optimize", "create_gender_surname_index"} =>
           /\ employees' = employees
           /\ seq' = seq
           /\ compressed' = compressed
           /\ IxEmployees \in schema => schema' = schema ]_vars

\* both listings hold at least two rows and the index exists
C7_Witness ==
  /\ Returned("mode_optimize")
  /\ Len(lastOp.ret.before) >= 2
  /\ Len(lastOp.ret.after) >= 2
  /\ IxEmployees \in schema

\* C8: when the body of a scoped transaction raises, the caller gets that
\* exception and the stored state is the state before the transaction.
C8_RollbackOnFailure ==
  [][ /\ lastOp'.raised # NoError =>
           /\ employees' = employees
           /\ seq' = seq
           /\ schema' = schema
           /\ compressed' = compressed
      /\ lastOp'.op = "bulk_insert" =>
           LET body == bulk_insert_body(DB, lastOp'.args.employees,
                                        lastOp'.args.batch_size, lastOp'.args.failing)
           IN body.cx.error # NoError =>
                /\ lastOp'.raised = body.cx.error
                /\ employees' = employees
                /\ seq' = seq ]_vars

\* bulk_insert raised after its body had written rows: run on the restored
\* state, the body writes rows again before it fails
C8_Witness ==
  /\ lastOp.op = "bulk_insert"
  /\ lastOp.raised = "IteratorError"
  /\ employees # <<>>
  /\ LET body == bulk_insert_body(DB, lastOp.args.employees,
                                  lastOp.args.batch_size, lastOp.args.failing)
     IN Len(body.cx.employees) > Len(employees)

\* C9 as claimed: replace_compressed_rows returns the number of rows given.
C9_ReplaceCount ==
  Returned("replace_compressed_rows") => lastOp.ret.count = Len(lastOp.args.rows)

CompressedRowOf(t) ==
  [full_name |-> t[1], birth_date |-> t[2], gender |-> t[3], compressed_payload |-> t[4]]

\* C10: after a successful replace_compressed_rows(R) the compressed table
\* holds exactly the rows of R, and a second call with R succeeds and leaves
\* the same content.
C10_FullRefreshIdempotent ==
  [][ (lastOp'.op = "replace_compressed_rows" /\ lastOp'.raised = NoError) =>
        LET rows == lastOp'.args.rows
            after == [employees |-> employees', seq |-> seq',
                      schema |-> schema', compressed |-> compressed',
                      active |-> in_transaction']
            again == replace_compressed_rows(after, rows)
        IN /\ compressed' = { CompressedRowOf(rows[i]) : i \in 1..Len(rows) }
           /\ Cardinality(compressed') = Len(rows)
           /\ again.raised = NoError
           /\ again.db = after ]_vars

\* a refresh with two rows succeeded
C10_Witness ==
  /\ Returned("replace_compressed_rows")
  /\ Len(lastOp.args.rows) >= 2
  /\ Cardinality(compressed) = 2

Field(obj, key) == (CHOOSE k \in 1..Len(obj) : obj[k].key = key)

\* C11: every row mode_compressed_table places into the compressed table
\* carries a payload that decompresses and decodes to exactly the dict that
\* was compressed; the dict's full_name, birth_date and gender are the row's
\* columns, and its age is age() of that birth_date on the day of the call;
\* the table holds no other row, and the dicts the mode restores are these
C11_RoundTrip ==
  Returned("mode_compressed_table") =>
    LET r == lastOp.ret
        Placed(i) == [full_name |-> r.rows[i][1], birth_date |-> r.rows[i][2],
                      gender |-> r.rows[i][3], compressed_payload |-> r.rows[i][4]]
    IN /\ r.rows # <<>> => compressed = { Placed(i) : i \in 1..Len(r.rows) }
       /\ \A i \in 1..Len(r.rows) :
            LET back == Restore(r.rows[i][4])
                born == strptime(r.rows[i][2])
            IN /\ back = [error |-> NoError, obj |-> r.payloads[i]]
               /\ Len(back.obj) = 4
               /\ \A k \in {KeyFullName, KeyBirthDate, KeyGender, KeyAge} :
                    \E n \in 1..4 : back.obj[n].key = k
               /\ back.obj[Field(back.obj, KeyFullName)].value = JsonStr(r.rows[i][1])
               /\ back.obj[Field(back.obj, KeyBirthDate)].value = JsonStr(r.rows[i][2])
               /\ back.obj[Field(back.obj, KeyGender)].value = JsonStr(r.rows[i][3])
               /\ born.error = NoError
               /\ back.obj[Field(back.obj, KeyAge)].value =
                    JsonInt(age([birth_date |-> born.date], lastOp.args.today))
       /\ Len(r.restored) = Len(r.rows)
       /\ \A k \in 1..Len(r.restored) : \E i \in 1..Len(r.rows) : r.restored[k] = r.payloads[i]

\* a refresh on the day before a birthday placed the rows of F" and of Fe
C11_Witness ==
  /\ Returned("mode_compressed_table")
  /\ lastOp.args.today = <<2026, 5, 14>>
  /\ \E i, j \in 1..Len(lastOp.ret.rows) :
       lastOp.ret.rows[i][1] = NameFq /\ lastOp.ret.rows[j][1] = NameFe

\* C12: connect() is idempotent.  A step other than close() that finds a
\* handle open keeps that handle, opens nothing and runs no PRAGMA; a step
\* that finds none opens exactly one; connect() returns the handle held;
\* and every handle ever opened has had the statements of _configure
\* executed on it exactly once
C12_ConnectIdempotent ==
  [][ /\ lastOp'.op # "close" =>
           /\ connection # 0 =>
                connection' = connection /\ opened' = opened /\ pragmas' = pragmas
           /\ connection = 0 =>
                connection' = opened + 1 /\ opened' = opened + 1
           /\ lastOp'.op = "connect" => lastOp'.ret.connection = connection'
      /\ Len(pragmas') = opened'
      /\ \A h \in 1..opened' : pragmas'[h] = PragmaList ]_vars

\* rows were committed by two calls, each through connect(), and the file
\* was opened once
C12_Witness ==
  /\ opened = 1
  /\ connection = 1
  /\ Len(employees) >= 2
  /\ Returned("connect")

\* C13: close() drops the handle when one is open and changes nothing when
\* none is; it never touches the stored rows.  The first call after it that
\* connects opens a handle no earlier call returned and runs the statements
\* of _configure on it, and a connect() finds the committed rows as they were
C13_CloseAndReopen ==
  [][ /\ lastOp'.op = "close" =>
           /\ connection' = 0
           /\ opened' = opened
           /\ pragmas' = pragmas
           /\ <<employees', seq', schema', compressed'>> =
                <<employees, seq, schema, compressed>>
      /\ (connection = 0 /\ lastOp'.op # "close") =>
           /\ connection' \notin 0..opened
           /\ pragmas'[connection'] = PragmaList
           /\ lastOp'.op = "connect" =>
                /\ lastOp'.ret.connection = connection'
                /\ <<employees', seq', schema', compressed'>> =
                     <<employees, seq, schema, compressed>> ]_vars

\* connect() returned a second handle while committed rows are stored
C13_Witness ==
  /\ Returned("connect")
  /\ lastOp.ret.connection = 2
  /\ opened = 2
  /\ employees # <<>>

\* C14: insert_employee, bulk_insert and replace_compressed_rows never
\* surface a constraint violation: given rows whose key is already stored,
\* or repeated within the input, the call on an existing table completes
\* without raising
C14_ViolationNeverRaised ==
  /\ (lastOp.op = "insert_employee" /\ TEmployees \in schema) =>
       lastOp.raised = NoError
  /\ (lastOp.op = "bulk_insert" /\ TEmployees \in schema /\ ~lastOp.args.failing) =>
       lastOp.raised = NoError
  /\ (lastOp.op = "replace_compressed_rows" /\ TCompressed \in schema) =>
       lastOp.raised = NoError

\* C15: every Employee that comes to exist, through from_strings or through
\* the constructor, has gender exactly Male or Female
C15_GenderValid ==
  (lastOp.op \in {"Employee", "from_strings"} /\ lastOp.raised = NoError) =>
    lastOp.ret.employee.gender \in {Male, Female}

\* the day before d
Yesterday(d) ==
  IF d[3] > 1 THEN <<d[1], d[2], d[3] - 1>>
  ELSE IF d[2] > 1 THEN <<d[1], d[2] - 1, DaysInMonth(d[1], d[2] - 1)>>
  ELSE <<d[1] - 1, 12, 31>>

\* C16: age at reference date r of a record born on b is r.year - b.year,
\* less one exactly when r's (month, day) comes before b's; on the birthday
\* it is one more than on the day before, and the day before it is what it
\* was the day before that
C16_Age ==
  lastOp.op = "age" =>
    LET b == lastOp.args.birth_date
        r == lastOp.args.reference_date
        emp == [birth_date |-> b]
        before == r[2] < b[2] \/ (r[2] = b[2] /\ r[3] < b[3])
    IN /\ lastOp.ret.years = r[1] - b[1] - (IF before THEN 1 ELSE 0)
       /\ (r[2] = b[2] /\ r[3] = b[3]) =>
            /\ lastOp.ret.years = age(emp, Yesterday(r)) + 1
            /\ age(emp, Yesterday(r)) = age(emp, Yesterday(Yesterday(r)))

\* age was asked on a birthday
C16_Witness ==
  /\ lastOp.op = "age"
  /\ lastOp.args.birth_date = Date1
  /\ lastOp.args.reference_date = <<2025, 5, 15>>
  /\ lastOp.ret.years = 35

\* the items of the batches a failing bulk_insert had executed when the
\* iterable raised: the whole batches before the one being collected
Executed(args) ==
  SubSeq(args.employees, 1, (Len(args.employees) \div args.batch_size) * args.batch_size)

\* C17 as stated: when bulk_insert fails while collecting batch k > 1, the
\* rows of batches 1..k-1 remain stored
C17_EarlierBatchesKept ==
  [][ (/\ lastOp'.op = "bulk_insert"
       /\ lastOp'.raised = "IteratorError"
       /\ TEmployees \in schema) =>
        \A i \in 1..Len(Executed(lastOp'.args)) :
          HasKey(employees', Executed(lastOp'.args)[i].full_name,
                 isoformat(Executed(lastOp'.args)[i].birth_date)) ]_vars

\* C17 amended: bulk_insert is atomic across the whole call.  When it fails
\* while collecting batch k > 1, no row of any batch is stored: the table is
\* what it was before the call, and a key of batches 1..k-1 is stored after
\* the call only if it was stored before
C17_AllBatchesRolledBack ==
  [][ (/\ lastOp'.op = "bulk_insert"
       /\ lastOp'.raised = "IteratorError"
       /\ TEmployees \in schema) =>
        /\ employees' = employees
        /\ \A i \in 1..Len(Executed(lastOp'.args)) :
             LET e == Executed(lastOp'.args)[i]
             IN HasKey(employees', e.full_name, isoformat(e.birth_date)) <=>
                HasKey(employees, e.full_name, isoformat(e.birth_date)) ]_vars

\* bulk_insert failed in its third batch after two batches of new rows, and
\* the table is empty
C17_Witness ==
  /\ lastOp.op = "bulk_insert"
  /\ lastOp.raised = "IteratorError"
  /\ lastOp.args.batch_size = 1
  /\ Len(lastOp.args.employees) = 2
  /\ lastOp.args.employees[1] # lastOp.args.employees[2]
  /\ TEmployees \in schema
  /\ employees = <<>>

\* C18: replace_compressed_rows is atomic.  When the call raises, after the
\* table was cleared or after some of the new rows were inserted, the
\* compressed table holds exactly the rows it held before the call
C18_ReplaceAtomic ==
  [][ (lastOp'.op = "replace_compressed_rows" /\ lastOp'.raised # NoError) =>
        /\ compressed' = compressed
        /\ schema' = schema ]_vars

\* the call raised on a repeated key after it had cleared a non-empty table
\* and inserted a row that was not there
C18_Witness ==
  /\ lastOp.op = "replace_compressed_rows"
  /\ lastOp.raised = "IntegrityError"
  /\ compressed # {}
  /\ LET body == replace_compressed_rows_body(DB, lastOp.args.rows)
     IN /\ body.cx.compressed # {}
        /\ body.cx.compressed \cap compressed = {}

\* C19: once create_schema has run, whatever insert_employee and bulk_insert
\* calls follow, completed or failed, no two rows of employees have the same
\* (full_name, birth_date) and every stored gender is Male or Female
C19_UniqueKeysValidGender ==
  TEmployees \in schema =>
    /\ UxEmployees \in schema
    /\ \A i, j \in 1..Len(employees) :
         (/\ employees[i].full_name = employees[j].full_name
          /\ employees[i].birth_date = employees[j].birth_date) => i = j
    /\ \A i \in 1..Len(employees) : employees[i].gender \in {Male, Female}

\* a record with another gender was handed to insert_employee after rows
\* were stored and a duplicate was skipped
C19_Witness ==
  /\ Returned("insert_employee")
  /\ lastOp.args.employee.gender \notin {Male, Female}
  /\ Len(employees) >= 2
  /\ seq > Len(employees) + 1

\* C20: no call of the repository deletes or changes a committed row of
\* employees.  Every step keeps the committed rows, each with its id,
\* full_name, birth_date and gender, as the leading rows of the table, and a
\* row the step adds has an id larger than that of every row before it
C20_RowsOnlyGrow ==
  [][ /\ Len(employees') >= Len(employees)
      /\ SubSeq(employees', 1, Len(employees)) = employees
      /\ \A i \in (Len(employees) + 1)..Len(employees') :
           \A j \in 1..(i - 1) : employees'[j].id < employees'[i].id ]_vars

\* rows were added by separate calls around a refresh of the compressed
\* table, after an id was consumed by a skipped duplicate
C20_Witness ==
  /\ Len(employees) >= 2
  /\ employees[2].id > employees[1].id + 1
  /\ compressed # {}
  /\ IxEmployees \in schema

\* C21: for a finite input and a size of at least 1, the batches chunked
\* yields, joined in order, are the input; every batch but the last has
\* exactly size elements, the last has between 1 and size, none is empty,
\* and an empty input yields no batch
C21_Chunked ==
  Returned("chunked") =>
    LET batches == lastOp.ret.batches
        size == lastOp.args.size
        n == Len(batches)
    IN /\ Flatten(batches) = lastOp.args.iterable
       /\ \A i \in 1..(n - 1) : Len(batches[i]) = size
       /\ n > 0 => Len(batches[n]) >= 1 /\ Len(batches[n]) <= size
       /\ \A i \in 1..n : batches[i] # <<>>
       /\ lastOp.args.iterable = <<>> => batches = <<>>

\* three records in batches of two: a whole batch and a shorter last one
C21_Witness ==
  /\ Returned("chunked")
  /\ lastOp.args.size = 2
  /\ Len(lastOp.args.iterable) = 3
  /\ lastOp.args.iterable[1] # lastOp.args.iterable[2]
  /\ Len(lastOp.ret.batches) = 2
  /\ Len(lastOp.ret.batches[2]) = 1

Writes ==
  { "create_schema", "insert_employee", "bulk_insert", "create_gender_surname_index",
    "create_compressed_table", "replace_compressed_rows" }

\* C22: a repository write leaves no transaction open when it returns or
\* raises.  Between calls the connection is never inside a transaction, so
\* the BEGIN of the next scoped transaction finds none active and succeeds,
\* and the transaction it opens is the only one
C22_NoTransactionLeftOpen ==
  [][ /\ ~in_transaction
      /\ ~in_transaction'
      /\ lastOp'.op \in Writes =>
           /\ Begin(DB).error = NoError
           /\ Begin(DB).active ]_vars

\* a write raised after its body had changed the table, rows are stored,
\* and no transaction is open
C22_Witness ==
  /\ lastOp.op = "replace_compressed_rows"
  /\ lastOp.raised = "IntegrityError"
  /\ employees # <<>>
  /\ compressed # {}
  /\ ~in_transaction

====
